---- MODULE Spec2Model ----
(***************************************************************************)
(* base16-universal-manager: the run of main.go (list caches, scheme and   *)
(* template lookup, the per-application render loop, the hook) and the     *)
(* path resolution getSavePath.                                            *)
(*                                                                         *)
(* A path is a sequence of one-token strings: "/" is the separator, "~"    *)
(* and "." are the characters the code and filepath.Clean look at, every   *)
(* other token is an opaque piece of a name.  A file's content is a        *)
(* sequence of lines.                                                      *)
(***************************************************************************)
EXTENDS Integers, Sequences, FiniteSets, TLC

VARIABLES
    pc,                 \* position of run(): "start", "caches", "load", "update",
                        \* "scheme", "apps", "render", "done"; "path*" in SpecPath
    appConf,            \* the configuration: [DryRun, Applications]
    updateFlag,         \* --update-list
    clearListFlag,      \* --clear-list
    schemesListExists,  \* appConf.SchemesListFile is on disk
    templatesListExists,\* appConf.TemplatesListFile is on disk
    cachePathsExist,    \* SchemesCachePath and TemplatesCachePath are on disk
    updated,            \* UpdateSchemes and UpdateTemplates have run in this run
    downFail,           \* the (app, file-key) pairs whose template body cannot be fetched
    homeOK,             \* user.Current() succeeds
    mkdirOK,            \* the file system lets os.Mkdir create a directory
    runErr,             \* the error run() returns ("" is nil)
    appsLeft,           \* applications the range loop has not visited yet
    curApp,             \* the application Base16Render is called for
    keysLeft,           \* file-keys the range loop of Base16Render has not visited
    templateEnabled,    \* run()'s local templateEnabled
    files,              \* the regular files on disk: path -> lines
    dirs,               \* the directories on disk
    files0,             \* the files when run() started
    dirs0,              \* the directories when run() started
    hookCalls,          \* per application: how often exe_cmd was called
    hookResult,         \* per application: "none", "ok", "failed"
    renderResult,       \* per application: what Base16Render returned: "none", "ok", "err"
    processed,          \* per application: the file-keys whose loop body ran to its end
    writes,             \* every write done: [app, key, path]
    failedKey,          \* per application: the file-key whose loop body returned the error
    pathArg,            \* SpecPath: getSavePath's path argument
    nameArg,            \* SpecPath: getSavePath's defaultFilename argument
    resPath,            \* SpecPath: the path getSavePath returned
    resErr,             \* SpecPath: the error getSavePath returned ("" is nil)
    prevPath,           \* SpecPath: the path the call before the last returned
    dirsBefore          \* SpecPath: the directories before the last call

vars == <<pc, appConf, updateFlag, clearListFlag, schemesListExists,
          templatesListExists, cachePathsExist, updated, downFail, homeOK, mkdirOK,
          runErr, appsLeft, curApp, keysLeft, templateEnabled, files, dirs, files0,
          dirs0, hookCalls, hookResult, renderResult, processed, writes, failedKey,
          pathArg, nameArg, resPath, resErr, prevPath, dirsBefore>>

runVars == <<appConf, updateFlag, clearListFlag, schemesListExists,
             templatesListExists, cachePathsExist, updated, downFail,
             runErr, appsLeft, curApp, keysLeft, templateEnabled, files0,
             dirs0, hookCalls, hookResult, renderResult, processed, writes, failedKey>>

pathVars == <<pathArg, nameArg, resPath, resErr, prevPath, dirsBefore>>

(***************************************************************************)
(* Bounds and the environment                                              *)
(***************************************************************************)
\* longest path spec handed to getSavePath in SpecPath
MaxPathLen == 4

\* the tokens path specs are built from in SpecPath
PathTokens == {"~", "/", ".", "a"}

\* usr.HomeDir
HomeDir == <<"/", "h">>

Sep == "/"

RECURSIVE SeqsUpTo(_, _)
SeqsUpTo(S, n) ==
    IF n = 0 THEN {<<>>}
    ELSE LET shorter == SeqsUpTo(S, n - 1)
         IN  shorter \cup {Append(s, x) : s \in {t \in shorter : Len(t) = n - 1}, x \in S}

(***************************************************************************)
(* strings and path/filepath                                               *)
(***************************************************************************)
HasSuffixSep(path) == Len(path) > 0 /\ path[Len(path)] = Sep

HasPrefixTildeSep(path) == Len(path) >= 2 /\ path[1] = "~" /\ path[2] = Sep

\* the non-empty elements of path between separators
RECURSIVE Components(_, _, _)
Components(path, cur, acc) ==
    IF path = <<>>
    THEN IF cur = <<>> THEN acc ELSE Append(acc, cur)
    ELSE IF Head(path) = Sep
         THEN Components(Tail(path), <<>>, IF cur = <<>> THEN acc ELSE Append(acc, cur))
         ELSE Components(Tail(path), Append(cur, Head(path)), acc)

\* filepath.Clean's element rules: drop ".", let ".." eat the element before
\* it, drop ".." at the root, keep leading ".." of a relative path
RECURSIVE CleanElements(_, _, _)
CleanElements(comps, rooted, out) ==
    IF comps = <<>> THEN out
    ELSE LET c == Head(comps)
             rest == Tail(comps)
         IN  IF c = <<".">> THEN CleanElements(rest, rooted, out)
             ELSE IF c = <<".", ".">>
                  THEN IF Len(out) > 0 /\ out[Len(out)] # <<".", ".">>
                       THEN CleanElements(rest, rooted, SubSeq(out, 1, Len(out) - 1))
                       ELSE IF rooted THEN CleanElements(rest, rooted, out)
                            ELSE CleanElements(rest, rooted, Append(out, c))
                  ELSE CleanElements(rest, rooted, Append(out, c))

RECURSIVE JoinElements(_)
JoinElements(comps) ==
    IF comps = <<>> THEN <<>>
    ELSE IF Len(comps) = 1 THEN Head(comps)
         ELSE Head(comps) \o <<Sep>> \o JoinElements(Tail(comps))

CleanBody(body, rooted) ==
    IF rooted THEN <<Sep>> \o body
    ELSE IF body = <<>> THEN <<".">> ELSE body

Clean(path) ==
    IF path = <<>> THEN <<".">>
    ELSE CleanBody(JoinElements(CleanElements(Components(path, <<>>, <<>>),
                                              path[1] = Sep, <<>>)),
                   path[1] = Sep)

\* filepath.Join of two elements: empty leading elements are ignored, the
\* rest is joined with the separator and cleaned
Join(a, b) ==
    IF a # <<>> THEN Clean(a \o <<Sep>> \o b)
    ELSE IF b # <<>> THEN Clean(b)
         ELSE <<>>

\* the paths of the first 1, 2, ... elements of comps
Prefixes(comps, rooted) ==
    {(IF rooted THEN <<Sep>> ELSE <<>>) \o JoinElements(SubSeq(comps, 1, n)) :
        n \in 1..Len(comps)}

\* the cleaned path and every directory above it, below "/" or the current directory
Ancestors(path) ==
    Prefixes(Components(Clean(path), <<>>, <<>>), Clean(path)[1] = Sep)

DirOf(comps, rooted) ==
    IF Len(comps) <= 1 THEN (IF rooted THEN <<Sep>> ELSE <<".">>)
    ELSE (IF rooted THEN <<Sep>> ELSE <<>>) \o JoinElements(SubSeq(comps, 1, Len(comps) - 1))

\* filepath.Dir of the cleaned path
ParentDir(path) ==
    DirOf(Components(Clean(path), <<>>, <<>>), Clean(path)[1] = Sep)

\* the disk's regular files are records [path, lines], one per path
FilePaths(fs) == {f.path : f \in fs}

ReadLines(fs, path) == (CHOOSE f \in fs : f.path = path).lines

PutFile(fs, path, lines) ==
    {f \in fs : f.path # path} \cup {[path |-> path, lines |-> lines]}

\* os.MkdirAll(path) fails when path is no directory yet and a regular file
\* is in the way or a directory cannot be made; when it succeeds path and its
\* parents are there (Ancestors(path) joins the directories)
MkdirFails(path, ds, fs, canMkdir) ==
    /\ Clean(path) \notin ds
    /\ \/ Ancestors(path) \cap FilePaths(fs) # {}
       \/ ~canMkdir

(***************************************************************************)
(* getSavePath                                                             *)
(***************************************************************************)
\* ResolveBase with a fault: "~/" is not cut off before the join
ResolveBaseKeepsTilde(path, homeDir) ==
    IF path = <<"~">> THEN homeDir
    ELSE IF HasPrefixTildeSep(path) THEN Join(homeDir, path)
         ELSE IF path[1] # Sep THEN Join(<<".">>, path)
              ELSE path

\* savePath before the directory rule
ResolveBase(path, homeDir) ==
    IF path = <<"~">> THEN homeDir
    ELSE IF HasPrefixTildeSep(path) THEN Join(homeDir, SubSeq(path, 3, Len(path)))
         ELSE IF path[1] # Sep THEN Join(<<".">>, path)
              ELSE path

\* DirectoryRule with a fault: the folder is not created
DirectoryRuleNoMkdir(path, savePath, defaultFilename, ds, fs, canMkdir) ==
    IF HasSuffixSep(path)
    THEN [savePath |-> Join(savePath, defaultFilename), err |-> "", dirs |-> ds]
    ELSE [savePath |-> savePath, err |-> "", dirs |-> ds]

\* a path spec ending in the separator names a folder: it is created and the
\* default file name is joined onto it
DirectoryRule(path, savePath, defaultFilename, ds, fs, canMkdir) ==
    IF HasSuffixSep(path)
    THEN IF MkdirFails(savePath, ds, fs, canMkdir)
         THEN [savePath |-> <<>>, err |-> "could not create folder", dirs |-> ds]
         ELSE [savePath |-> Join(savePath, defaultFilename), err |-> "",
               dirs |-> ds \cup Ancestors(savePath)]
    ELSE [savePath |-> savePath, err |-> "", dirs |-> ds]

getSavePath(path, defaultFilename, ds, fs, canHome, canMkdir) ==
    IF path = <<>> THEN [savePath |-> <<>>, err |-> "", dirs |-> ds]
    ELSE IF path[1] = "~" /\ ~canHome
         THEN [savePath |-> <<>>, err |-> "could not get user home directory", dirs |-> ds]
         ELSE DirectoryRule(path,
                            ResolveBase(path, IF path[1] = "~" THEN HomeDir ELSE <<>>),
                            defaultFilename, ds, fs, canMkdir)

(***************************************************************************)
(* SpecPath: getSavePath called on every path spec up to MaxPathLen, and   *)
(* called again with the same arguments                                    *)
(***************************************************************************)
PathSpecs == SeqsUpTo(PathTokens, MaxPathLen)

DefaultFilenames == {<<"colors.vim">>, <<"script.sh">>}

BaseDirs == {<<Sep>>, <<".">>, HomeDir}

NoConf == [DryRun |-> FALSE, Applications |-> <<>>]

RunIdle ==
    /\ appConf = NoConf
    /\ updateFlag = FALSE /\ clearListFlag = FALSE
    /\ schemesListExists = TRUE /\ templatesListExists = TRUE
    /\ cachePathsExist = TRUE /\ updated = FALSE
    /\ downFail = {}
    /\ runErr = "" /\ appsLeft = {} /\ curApp = "" /\ keysLeft = {}
    /\ templateEnabled = FALSE
    /\ hookCalls = <<>> /\ hookResult = <<>> /\ renderResult = <<>>
    /\ processed = <<>> /\ writes = {} /\ failedKey = <<>>

InitPath ==
    /\ pc = "path"
    /\ RunIdle
    /\ homeOK \in BOOLEAN
    /\ mkdirOK \in BOOLEAN
    /\ dirs \in {BaseDirs, BaseDirs \cup {<<"a">>}}
    /\ files \in {{}, {[path |-> <<"a">>, lines |-> <<"x">>]}}
    /\ FilePaths(files) \cap dirs = {}
    /\ files0 = files /\ dirs0 = dirs
    /\ pathArg = <<>> /\ nameArg = <<>> /\ resPath = <<>> /\ resErr = ""
    /\ prevPath = <<>> /\ dirsBefore = dirs

\* getSavePath(path, defaultFilename), with the file system free to allow
\* or refuse a mkdir
ResolvePath ==
    /\ pc = "path"
    /\ \E path \in PathSpecs, defaultFilename \in DefaultFilenames, m \in BOOLEAN :
          \E r \in {getSavePath(path, defaultFilename, dirs, files, homeOK, m)} :
              /\ pathArg' = path
              /\ nameArg' = defaultFilename
              /\ mkdirOK' = m
              /\ resPath' = r.savePath
              /\ resErr' = r.err
              /\ dirs' = r.dirs
    /\ dirsBefore' = dirs
    /\ prevPath' = <<>>
    /\ pc' = "pathCalled"
    /\ UNCHANGED <<runVars, homeOK, files>>

\* the same call once more
ResolveAgain ==
    /\ pc = "pathCalled"
    /\ \E m \in BOOLEAN :
          \E r \in {getSavePath(pathArg, nameArg, dirs, files, homeOK, m)} :
              /\ mkdirOK' = m
              /\ resPath' = r.savePath
              /\ resErr' = r.err
              /\ dirs' = r.dirs
    /\ dirsBefore' = dirs
    /\ prevPath' = resPath
    /\ pc' = "pathAgain"
    /\ UNCHANGED <<runVars, homeOK, files, pathArg, nameArg>>

NextPath == ResolvePath \/ ResolveAgain

SpecPath == InitPath /\ [][NextPath]_vars

Called == pc \in {"pathCalled", "pathAgain"}


(***************************************************************************)
(* The registries and the collaborators of Base16Render                    *)
(***************************************************************************)
Apps == {"vim", "shell"}

\* what templateList holds: name -> Files (file-key -> Extension)
Templates ==
    [vim    |-> [Files |-> [colors |-> ".vim", airline |-> ".vim"]],
     shell  |-> [Files |-> [script |-> ".sh"]],
     broken |-> [Files |-> [theme |-> ".bin"]]]

SupportedExtensions == {".vim", ".sh"}

ZeroTarget == [Path |-> <<>>, Mode |-> "", StartMarker |-> "", EndMarker |-> ""]

Target(path, mode, startMarker, endMarker) ==
    [Path |-> path, Mode |-> mode, StartMarker |-> startMarker, EndMarker |-> endMarker]

\* templateList.Find(name): exact match by name
TemplateFound(name) == name \in DOMAIN Templates

\* appConfig.Template, the application's name when it is empty
TemplateName(app) ==
    IF appConf.Applications[app].Template = "" THEN app
    ELSE appConf.Applications[app].Template

\* appConf.Applications[app].Files[k]: a missing key reads as the zero FileTarget
FileTargetOf(app, k) ==
    IF k \in DOMAIN appConf.Applications[app].Files
    THEN appConf.Applications[app].Files[k]
    ELSE ZeroTarget

\* templ.Files of the template run() hands to Base16Render
TemplFiles(app) == Templates[TemplateName(app)].Files

\* DownloadFileToString(templ.RawBaseURL + "templates/" + k + ".mustache")
DownloadFails(app, k) == <<app, k>> \in downFail

\* scheme.MustacheContext(v.Extension)
MustacheContextFails(extension) == extension \notin SupportedExtensions

\* mustache.Render(templFileData, templContext)
RenderedFile(app, k) == <<"rendered " \o k>>

\* the load of a list reads its cache file: an absent file is an error
LoadFails(listExists) == ~listExists

\* UpdateSchemes and UpdateTemplates: each fetches the remote index and
\* overwrites its cache file, or fails
UpdateOutcomes == {"ok", "updating schemes", "updating templates"}

\* exe_cmd(command): nothing is run for the empty command, any other may fail
HookOutcomes(command) == IF command = "" THEN {"ok"} ELSE {"ok", "failed"}

\* WriteFile(savePath, data): the file is created or truncated
WriteFile(savePath, data, fs, ds) ==
    IF Clean(savePath) \in ds \/ ParentDir(savePath) \notin ds
    THEN [err |-> "write", files |-> fs]
    ELSE [err |-> "", files |-> PutFile(fs, Clean(savePath), data)]

\* the first line at or after from that equals marker, 0 when there is none
FirstLine(lines, marker, from) ==
    IF \A i \in from..Len(lines) : lines[i] # marker THEN 0
    ELSE CHOOSE i \in from..Len(lines) :
            /\ lines[i] = marker
            /\ \A j \in from..(i - 1) : lines[j] # marker

\* the lines up to the start marker, the replacement, the lines from the end
\* marker on; an error when a marker is not found
ReplaceBetween(path, lines, renderedFile, startIdx, endIdx, fs) ==
    IF startIdx = 0 \/ endIdx = 0
    THEN [err |-> "marker not found", files |-> fs]
    ELSE [err |-> "",
          files |-> PutFile(fs, path, SubSeq(lines, 1, startIdx) \o renderedFile
                                        \o SubSeq(lines, endIdx, Len(lines)))]

ReplaceLines(path, lines, renderedFile, startIdx, endMarker, fs) ==
    ReplaceBetween(path, lines, renderedFile, startIdx,
                   IF startIdx = 0 THEN 0 ELSE FirstLine(lines, endMarker, startIdx + 1),
                   fs)

\* ReplaceMultiline(filePath, replacement, startMarker, endMarker)
ReplaceMultiline(filePath, renderedFile, startMarker, endMarker, fs) ==
    IF Clean(filePath) \notin FilePaths(fs) THEN [err |-> "read", files |-> fs]
    ELSE ReplaceLines(Clean(filePath), ReadLines(fs, Clean(filePath)), renderedFile,
                      FirstLine(ReadLines(fs, Clean(filePath)), startMarker, 1),
                      endMarker, fs)

(***************************************************************************)
(* Base16Render                                                            *)
(***************************************************************************)
\* IsSkipped with a fault: an empty save path is not skipped
IsSkippedNever(savePath) == FALSE

\* if savePath == "" { continue }
IsSkipped(savePath) == savePath = <<>>

\* what one write strategy did, as the loop body's outcome
WriteOutcome(w, ds, savePath) ==
    [err |-> w.err, files |-> w.files, dirs |-> ds,
     wrote |-> IF w.err = "" THEN Clean(savePath) ELSE <<>>]

\* the loop body once the save path sp is resolved: skip, dry run, or the
\* switch on the FileTarget's Mode
RenderResolved(app, k, t, sp, fs, ds) ==
    IF sp.err # ""
    THEN [err |-> "could not get location for save path", files |-> fs,
          dirs |-> sp.dirs, wrote |-> <<>>]
    ELSE IF IsSkipped(sp.savePath)
    THEN [err |-> "", files |-> fs, dirs |-> ds, wrote |-> <<>>]
    ELSE IF appConf.DryRun
    THEN [err |-> "", files |-> fs, dirs |-> sp.dirs, wrote |-> <<>>]
    ELSE IF t.Mode = "rewrite"
    THEN WriteOutcome(WriteFile(sp.savePath, RenderedFile(app, k), fs, sp.dirs),
                      sp.dirs, sp.savePath)
    ELSE IF t.Mode = "replace"
    THEN WriteOutcome(ReplaceMultiline(sp.savePath, RenderedFile(app, k),
                                       t.StartMarker, t.EndMarker, fs),
                      sp.dirs, sp.savePath)
    ELSE [err |-> "", files |-> fs, dirs |-> sp.dirs, wrote |-> <<>>]

\* the body of the loop over templ.Files for file-key k, on the disk (fs, ds):
\* the error it returns, the disk after it, and the path it wrote (<<>>: none)
RenderKey(app, k, fs, ds) ==
    IF DownloadFails(app, k)
    THEN [err |-> "could not download template file", files |-> fs, dirs |-> ds,
          wrote |-> <<>>]
    ELSE IF MustacheContextFails(TemplFiles(app)[k])
    THEN [err |-> "generating template context", files |-> fs, dirs |-> ds,
          wrote |-> <<>>]
    ELSE RenderResolved(app, k, FileTargetOf(app, k),
                        getSavePath(FileTargetOf(app, k).Path,
                                    <<k \o TemplFiles(app)[k]>>, ds, fs, homeOK, mkdirOK),
                        fs, ds)

\* LoopDone with a fault: the hook does not wait for the loop
LoopDoneEarly(left) == TRUE

\* the range loop over templ.Files has visited every file-key
LoopDone(left) == left = {}

\* HookRuns with a fault: only the first rendered application gets its hook
HookRunsFirstOnly(dryRun, enabledBefore) == ~dryRun /\ ~enabledBefore

\* if appConf.DryRun { ... } else { exe_cmd(...) }
HookRuns(dryRun, enabledBefore) == ~dryRun

\* AfterRenderError with a fault: the loop goes on with the next application
AfterRenderErrorContinues == "apps"

\* run() returns the error of Base16Render
AfterRenderError == "done"


(***************************************************************************)
(* The configurations and disks a run starts from                          *)
(***************************************************************************)
TSkip == Target(<<>>, "rewrite", "", "")
TRewriteA == Target(<<"a">>, "rewrite", "", "")
TRewriteB == Target(<<"b">>, "rewrite", "", "")
TRewriteDir == Target(<<"d", Sep>>, "rewrite", "", "")
TRewriteHome == Target(<<"~", Sep, "c">>, "rewrite", "", "")
TFileAsDir == Target(<<"a", Sep>>, "rewrite", "", "")
TReplaceA == Target(<<"a">>, "replace", "S", "E")
TReplaceNoEnd == Target(<<"a">>, "replace", "S", "Z")
TReplaceEmptyMarker == Target(<<"a">>, "replace", "", "E")
TReplaceMissing == Target(<<"b">>, "replace", "S", "E")
TNoMode == Target(<<"b">>, "", "", "")
TExtra == Target(<<"e">>, "rewrite", "", "")

ColorsTargets == {TSkip, TRewriteA, TRewriteDir, TRewriteHome, TFileAsDir, TReplaceA,
                  TReplaceNoEnd, TReplaceEmptyMarker, TReplaceMissing, TNoMode}

AirlineTargets == {TSkip, TRewriteA, TRewriteB, TRewriteDir}

ScriptTargets == {TSkip, TRewriteB, TRewriteDir, TRewriteHome, TReplaceA}

\* the vim application: two declared file-keys and a FileTarget, extra, that
\* the vim template does not declare
VimConfigs ==
    {[Enabled |-> TRUE, Template |-> "", Hook |-> "reload",
      Files |-> [colors |-> c, airline |-> a, extra |-> TExtra]] :
        c \in ColorsTargets, a \in AirlineTargets}
    \cup {[Enabled |-> FALSE, Template |-> "", Hook |-> "reload",
           Files |-> [colors |-> TRewriteA, airline |-> TSkip, extra |-> TExtra]]}

ShellConfigs ==
    {[Enabled |-> TRUE, Template |-> "", Hook |-> "", Files |-> [script |-> t]] :
        t \in ScriptTargets}
    \cup {[Enabled |-> e, Template |-> n, Hook |-> "", Files |-> [script |-> TRewriteB]] :
            e \in {TRUE}, n \in {"missing", "broken"}}
    \cup {[Enabled |-> FALSE, Template |-> "", Hook |-> "", Files |-> [script |-> TRewriteB]]}

DefaultConf ==
    [DryRun |-> FALSE,
     Applications |->
        [vim |-> [Enabled |-> TRUE, Template |-> "", Hook |-> "reload",
                  Files |-> [colors |-> TRewriteA, airline |-> TSkip, extra |-> TExtra]],
         shell |-> [Enabled |-> FALSE, Template |-> "", Hook |-> "",
                    Files |-> [script |-> TRewriteB]]]]

Configs ==
    {[DryRun |-> d, Applications |-> [vim |-> v, shell |-> s]] :
        d \in BOOLEAN, v \in VimConfigs, s \in ShellConfigs}

\* the user's file a holds a marked region below an empty line
Disk0 == {[path |-> <<"a">>, lines |-> <<"", "S", "old", "E">>]}

Init ==
    /\ pc = "start"
    /\ \/ /\ appConf = DefaultConf
          /\ downFail = {}
          /\ updateFlag \in BOOLEAN
          /\ clearListFlag \in BOOLEAN
          /\ schemesListExists \in BOOLEAN
          /\ templatesListExists \in BOOLEAN
          /\ homeOK = TRUE
          /\ mkdirOK = TRUE
       \/ /\ appConf \in Configs
          /\ homeOK \in BOOLEAN
          /\ mkdirOK \in BOOLEAN
          /\ downFail \in {{}, {<<"vim", "colors">>}, {<<"shell", "script">>}}
          /\ updateFlag = FALSE
          /\ clearListFlag = FALSE
          /\ schemesListExists = TRUE
          /\ templatesListExists = TRUE
    /\ cachePathsExist \in BOOLEAN
    /\ updated = FALSE
    /\ runErr = ""
    /\ appsLeft = Apps
    /\ curApp = ""
    /\ keysLeft = {}
    /\ templateEnabled = FALSE
    /\ files = Disk0 /\ files0 = Disk0
    /\ dirs = BaseDirs /\ dirs0 = BaseDirs
    /\ hookCalls = [a \in Apps |-> 0]
    /\ hookResult = [a \in Apps |-> "none"]
    /\ renderResult = [a \in Apps |-> "none"]
    /\ processed = [a \in Apps |-> {}]
    /\ failedKey = [a \in Apps |-> ""]
    /\ writes = {}
    /\ pathArg = <<>> /\ nameArg = <<>> /\ resPath = <<>> /\ resErr = ""
    /\ prevPath = <<>> /\ dirsBefore = {}

(***************************************************************************)
(* run(): the caches and the lists                                         *)
(***************************************************************************)
diskVars == <<files, dirs, files0, dirs0, homeOK, mkdirOK>>

loopVars == <<appsLeft, curApp, keysLeft, templateEnabled, hookCalls, hookResult,
              renderResult, processed, writes, failedKey>>

confVars == <<appConf, updateFlag, clearListFlag, downFail>>

\* --clear-list: both list files are removed, a failed removal is only printed
ClearLists ==
    /\ pc = "start"
    /\ schemesListExists' = (schemesListExists /\ ~clearListFlag)
    /\ templatesListExists' = (templatesListExists /\ ~clearListFlag)
    /\ pc' = "caches"
    /\ UNCHANGED <<confVars, diskVars, loopVars, pathVars, cachePathsExist, updated, runErr>>

\* --clear-schemes, --clear-templates, then os.MkdirAll of both cache paths
PrepareCaches ==
    /\ pc = "caches"
    /\ cachePathsExist' = TRUE
    /\ pc' = "load"
    /\ UNCHANGED <<confVars, diskVars, loopVars, pathVars, schemesListExists,
                   templatesListExists, updated, runErr>>

\* LoadBase16ColorschemeList(): the cache file is read, an absent file is an error
LoadSchemeListFails ==
    /\ pc = "load"
    /\ LoadFails(schemesListExists)
    /\ runErr' = "loading colorscheme list"
    /\ pc' = "done"
    /\ UNCHANGED <<confVars, diskVars, loopVars, pathVars, schemesListExists,
                   templatesListExists, cachePathsExist, updated>>

\* LoadBase16TemplateList()
LoadTemplateListFails ==
    /\ pc = "load"
    /\ ~LoadFails(schemesListExists)
    /\ LoadFails(templatesListExists)
    /\ runErr' = "loading template list"
    /\ pc' = "done"
    /\ UNCHANGED <<confVars, diskVars, loopVars, pathVars, schemesListExists,
                   templatesListExists, cachePathsExist, updated>>

LoadLists ==
    /\ pc = "load"
    /\ ~LoadFails(schemesListExists)
    /\ ~LoadFails(templatesListExists)
    /\ pc' = "update"
    /\ UNCHANGED <<confVars, diskVars, loopVars, pathVars, schemesListExists,
                   templatesListExists, cachePathsExist, updated, runErr>>

\* no --update-list
SkipUpdate ==
    /\ pc = "update"
    /\ ~updateFlag
    /\ pc' = "scheme"
    /\ UNCHANGED <<confVars, diskVars, loopVars, pathVars, schemesListExists,
                   templatesListExists, cachePathsExist, updated, runErr>>

\* --update-list: UpdateSchemes, then UpdateTemplates
UpdateLists ==
    /\ pc = "update"
    /\ updateFlag
    /\ \E outcome \in UpdateOutcomes :
          /\ runErr' = (IF outcome = "ok" THEN "" ELSE outcome)
          /\ pc' = (IF outcome = "ok" THEN "scheme" ELSE "done")
          /\ updated' = (outcome = "ok")
    /\ UNCHANGED <<confVars, diskVars, loopVars, pathVars, schemesListExists,
                   templatesListExists, cachePathsExist>>

\* schemeList.Find of the scheme of --scheme or of the configuration
FindScheme ==
    /\ pc = "scheme"
    /\ \E found \in BOOLEAN :
          /\ runErr' = (IF found THEN "" ELSE "finding scheme")
          /\ pc' = (IF found THEN "apps" ELSE "done")
    /\ UNCHANGED <<confVars, diskVars, loopVars, pathVars, schemesListExists,
                   templatesListExists, cachePathsExist, updated>>

(***************************************************************************)
(* run(): the loop over appConf.Applications.  A Go map is ranged over in  *)
(* an unspecified order: each step takes any element not yet visited.      *)
(***************************************************************************)
startVars == <<schemesListExists, templatesListExists, cachePathsExist, updated>>

SkipDisabled ==
    /\ pc = "apps"
    /\ \E app \in appsLeft :
          /\ ~appConf.Applications[app].Enabled
          /\ appsLeft' = appsLeft \ {app}
    /\ UNCHANGED <<pc, confVars, diskVars, startVars, pathVars, runErr, curApp, keysLeft,
                   templateEnabled, hookCalls, hookResult, renderResult, processed,
                   writes, failedKey>>

FindTemplateFails ==
    /\ pc = "apps"
    /\ \E app \in appsLeft :
          /\ appConf.Applications[app].Enabled
          /\ ~TemplateFound(TemplateName(app))
          /\ appsLeft' = appsLeft \ {app}
    /\ runErr' = "finding template"
    /\ pc' = "done"
    /\ UNCHANGED <<confVars, diskVars, startVars, pathVars, curApp, keysLeft,
                   templateEnabled, hookCalls, hookResult, renderResult, processed,
                   writes, failedKey>>

\* Base16Render(tmpl, scheme, app) is entered
StartRender ==
    /\ pc = "apps"
    /\ \E app \in appsLeft :
          /\ appConf.Applications[app].Enabled
          /\ TemplateFound(TemplateName(app))
          /\ appsLeft' = appsLeft \ {app}
          /\ curApp' = app
          /\ keysLeft' = DOMAIN TemplFiles(app)
    /\ pc' = "render"
    /\ UNCHANGED <<confVars, diskVars, startVars, pathVars, runErr, templateEnabled,
                   hookCalls, hookResult, renderResult, processed, writes, failedKey>>

\* one pass of the loop over templ.Files that ends without an error
RenderFileKey ==
    /\ pc = "render"
    /\ \E k \in keysLeft :
          \E r \in {RenderKey(curApp, k, files, dirs)} :
              /\ r.err = ""
              /\ files' = r.files
              /\ dirs' = r.dirs
              /\ keysLeft' = keysLeft \ {k}
              /\ processed' = [processed EXCEPT ![curApp] = @ \cup {k}]
              /\ writes' = IF r.wrote = <<>> THEN writes
                           ELSE writes \cup {[app |-> curApp, key |-> k, path |-> r.wrote]}
    /\ UNCHANGED <<pc, confVars, startVars, pathVars, runErr, appsLeft, curApp,
                   templateEnabled, hookCalls, hookResult, renderResult, failedKey,
                   files0, dirs0, homeOK, mkdirOK>>

\* one pass of the loop that returns an error: Base16Render returns it, and
\* run() returns it wrapped
RenderFileKeyFails ==
    /\ pc = "render"
    /\ \E k \in keysLeft :
          \E r \in {RenderKey(curApp, k, files, dirs)} :
              /\ r.err # ""
              /\ files' = r.files
              /\ dirs' = r.dirs
              /\ failedKey' = [failedKey EXCEPT ![curApp] = k]
    /\ renderResult' = [renderResult EXCEPT ![curApp] = "err"]
    /\ runErr' = "rendering file"
    /\ pc' = AfterRenderError
    /\ UNCHANGED <<confVars, startVars, pathVars, appsLeft, curApp, keysLeft,
                   templateEnabled, hookCalls, hookResult, processed, writes,
                   files0, dirs0, homeOK, mkdirOK>>

\* after the loop: the hook unless DryRun, whose outcome exe_cmd's caller
\* does not look at; Base16Render returns nil
FinishRender ==
    /\ pc = "render"
    /\ LoopDone(keysLeft)
    /\ IF HookRuns(appConf.DryRun, templateEnabled)
       THEN /\ hookCalls' = [hookCalls EXCEPT ![curApp] = @ + 1]
            /\ \E outcome \in HookOutcomes(appConf.Applications[curApp].Hook) :
                  hookResult' = [hookResult EXCEPT ![curApp] = outcome]
       ELSE UNCHANGED <<hookCalls, hookResult>>
    /\ renderResult' = [renderResult EXCEPT ![curApp] = "ok"]
    /\ templateEnabled' = TRUE
    /\ pc' = "apps"
    /\ UNCHANGED <<confVars, diskVars, startVars, pathVars, runErr, appsLeft, curApp,
                   keysLeft, processed, writes, failedKey>>

\* every application was visited: run() returns nil
EndRun ==
    /\ pc = "apps"
    /\ appsLeft = {}
    /\ pc' = "done"
    /\ UNCHANGED <<confVars, diskVars, startVars, pathVars, runErr, loopVars>>

Next ==
    \/ ClearLists
    \/ PrepareCaches
    \/ LoadSchemeListFails
    \/ LoadTemplateListFails
    \/ LoadLists
    \/ SkipUpdate
    \/ UpdateLists
    \/ FindScheme
    \/ SkipDisabled
    \/ FindTemplateFails
    \/ StartRender
    \/ RenderFileKey
    \/ RenderFileKeyFails
    \/ FinishRender
    \/ EndRun

Spec == Init /\ [][Next]_vars


(***************************************************************************)
(* The run as a function of the iteration order: the same loop bodies,     *)
(* taken in the order of a given sequence of applications and, for each    *)
(* application, a given sequence of its template's file-keys               *)
(***************************************************************************)
Perms(S) ==
    {q \in [1..Cardinality(S) -> S] : \A i, j \in 1..Cardinality(S) : i # j => q[i] # q[j]}

DeclaredKeys(app) ==
    IF TemplateFound(TemplateName(app)) THEN DOMAIN TemplFiles(app) ELSE {}

KeyOrders ==
    {ko \in [Apps -> UNION {Perms(DeclaredKeys(a)) : a \in Apps}] :
        \A a \in Apps : ko[a] \in Perms(DeclaredKeys(a))}

AddWritten(written, r) == IF r.wrote = <<>> THEN written ELSE written \cup {r.wrote}

\* the loop of Base16Render over the file-keys ks, from the disk of w
RECURSIVE RenderKeysInOrder(_, _, _)
RenderKeysInOrder(app, ks, w) ==
    IF ks = <<>> \/ w.err # "" THEN w
    ELSE RenderKeysInOrder(app, Tail(ks),
            [w EXCEPT !.files = RenderKey(app, Head(ks), w.files, w.dirs).files,
                      !.dirs = RenderKey(app, Head(ks), w.files, w.dirs).dirs,
                      !.err = RenderKey(app, Head(ks), w.files, w.dirs).err,
                      !.written = AddWritten(@, RenderKey(app, Head(ks), w.files, w.dirs))])

\* Base16Render's end for app, given the world r its loop left
AfterKeys(app, r) ==
    IF r.err # "" THEN [r EXCEPT !.err = "rendering file"]
    ELSE [r EXCEPT !.hooks = IF HookRuns(appConf.DryRun, r.enabled) THEN @ \cup {app} ELSE @,
                   !.enabled = TRUE]

\* the loop of run() over the applications as
RECURSIVE RunInOrder(_, _, _)
RunInOrder(as, ko, w) ==
    IF as = <<>> \/ w.err # "" THEN w
    ELSE IF ~appConf.Applications[Head(as)].Enabled THEN RunInOrder(Tail(as), ko, w)
    ELSE IF ~TemplateFound(TemplateName(Head(as)))
    THEN [w EXCEPT !.err = "finding template"]
    ELSE RunInOrder(Tail(as), ko,
                    AfterKeys(Head(as), RenderKeysInOrder(Head(as), ko[Head(as)], w)))

World0 ==
    [files |-> files0, dirs |-> dirs0, hooks |-> {}, written |-> {}, err |-> "",
     enabled |-> FALSE]

\* what a run leaves: the files' content, the paths written, the hooks run
Outcome(w) == [files |-> w.files, written |-> w.written, hooks |-> w.hooks]

ActualOutcome ==
    [files |-> files, written |-> {w.path : w \in writes},
     hooks |-> {a \in Apps : hookCalls[a] > 0}]

(***************************************************************************)
(* The claims                                                              *)
(***************************************************************************)
\* the path the case rule of the path resolver gives for a non-empty path spec
CaseRule(p) ==
    IF p = <<"~">> THEN HomeDir
    ELSE IF HasPrefixTildeSep(p) THEN Clean(HomeDir \o <<Sep>> \o SubSeq(p, 3, Len(p)))
    ELSE IF p[1] # Sep THEN Clean(p)
    ELSE p

\* where the FileTarget of (app, k) says the file goes
ExpectedDest(app, k) ==
    IF HasSuffixSep(FileTargetOf(app, k).Path)
    THEN Clean(CaseRule(FileTargetOf(app, k).Path) \o <<Sep, k \o TemplFiles(app)[k]>>)
    ELSE Clean(CaseRule(FileTargetOf(app, k).Path))

Rendered(app) == appConf.Applications[app].Enabled /\ DeclaredKeys(app) # {}

\* C1: with DryRun set, a run leaves every file and directory as it was and
\* calls no hook.
DryRunTouchesNothing ==
    appConf.DryRun =>
        /\ files = files0
        /\ dirs = dirs0
        /\ \A a \in Apps : hookCalls[a] = 0

HookFailureIsReturned ==
    \A a \in Apps :
        hookResult[a] = "failed" =>
            /\ renderResult[a] = "err"
            /\ \A w \in writes : w.app = a => w.path \in FilePaths(files)

\* C4: the hook of an application is called at most once, only when the
\* application is enabled, DryRun is off, every file-key of its template was
\* processed and none returned an error.
HookOnceAfterAllKeys ==
    \A a \in Apps :
        /\ hookCalls[a] <= 1
        /\ hookCalls[a] = 1 =>
              /\ appConf.Applications[a].Enabled
              /\ ~appConf.DryRun
              /\ processed[a] = DeclaredKeys(a)
              /\ failedKey[a] = ""
              /\ renderResult[a] # "err"
        /\ (~appConf.Applications[a].Enabled \/ renderResult[a] = "err") => hookCalls[a] = 0

\* C4 witness: vim's hook ran after both of its file-keys, and the render of
\* shell was aborted by an error without its hook.
HookRanForOneNotTheOther ==
    /\ hookCalls["vim"] = 1
    /\ processed["vim"] = {"colors", "airline"}
    /\ renderResult["shell"] = "err"
    /\ hookCalls["shell"] = 0

SavePathFollowsCaseRule ==
    Called =>
        /\ pathArg = <<>> => (resErr = "" /\ resPath = <<>>)
        /\ (pathArg # <<>> /\ resErr = "") =>
              /\ ~HasSuffixSep(pathArg) =>
                    /\ resPath = CaseRule(pathArg)
                    /\ \A d \in DefaultFilenames :
                          getSavePath(pathArg, d, dirsBefore, files, homeOK, mkdirOK).savePath
                            = resPath
              /\ HasSuffixSep(pathArg) =>
                    resPath = Clean(CaseRule(pathArg) \o <<Sep>> \o nameArg)

\* C7 witness: "~/a" was resolved to the home directory joined with "a".
TildePathResolved ==
    /\ Called
    /\ pathArg = <<"~", Sep, "a">>
    /\ resErr = ""
    /\ resPath = HomeDir \o <<Sep, "a">>

\* C8: for a path spec ending in the separator, a successful getSavePath
\* returns the resolved directory joined with the default file name and the
\* directory and its parents exist; a failed one returns the empty path, and
\* a folder error only when the directory was not there; the same call made
\* again after a success succeeds with the same path and creates nothing.
DirectorySpecCreatesFolder ==
    (Called /\ HasSuffixSep(pathArg)) =>
        /\ resErr = "" =>
              /\ resPath = Clean(CaseRule(pathArg) \o <<Sep>> \o nameArg)
              /\ Clean(CaseRule(pathArg)) \in dirs
              /\ Ancestors(CaseRule(pathArg)) \subseteq dirs
              /\ dirsBefore \subseteq dirs
        /\ resErr # "" => (resPath = <<>> /\ dirs = dirsBefore)
        /\ resErr = "could not create folder" => Clean(CaseRule(pathArg)) \notin dirsBefore
        /\ (pc = "pathAgain" /\ prevPath # <<>>) =>
              (resErr = "" /\ resPath = prevPath /\ dirs = dirsBefore)

\* C8 witness: a directory that was not there was created by the first call,
\* and the second call returned the same path.
FolderCreatedThenFound ==
    /\ pc = "pathAgain"
    /\ HasSuffixSep(pathArg)
    /\ resErr = ""
    /\ resPath = prevPath
    /\ Clean(CaseRule(pathArg)) \notin dirs0
    /\ Clean(CaseRule(pathArg)) \in dirs

\* C9: outside DryRun, the loop body of a file-key whose FileTarget has mode
\* "replace", a path and an empty start or end marker never ends without an
\* error.
EmptyMarkerIsRejected ==
    \A a \in Apps : \A k \in processed[a] :
        (/\ ~appConf.DryRun
         /\ FileTargetOf(a, k).Mode = "replace"
         /\ FileTargetOf(a, k).Path # <<>>)
        => (FileTargetOf(a, k).StartMarker # "" /\ FileTargetOf(a, k).EndMarker # "")

\* the enabled targets resolve to pairwise distinct destinations
DistinctDestinations ==
    \A a, b \in Apps : \A k \in DeclaredKeys(a), l \in DeclaredKeys(b) :
        (/\ appConf.Applications[a].Enabled /\ appConf.Applications[b].Enabled
         /\ <<a, k>> # <<b, l>>
         /\ FileTargetOf(a, k).Path # <<>> /\ FileTargetOf(b, l).Path # <<>>)
        => ExpectedDest(a, k) # ExpectedDest(b, l)

Started == runErr \in {"", "rendering file"}

\* C10 (as stated): at the end of a run that got to the applications, every
\* iteration order of the applications and of the file-keys leaves the same
\* files, written paths and hooks as this run did: when no step failed and
\* the destinations are distinct, and also when a file-key step failed.
OutcomeSameInEveryOrder ==
    (pc = "done" /\ Started /\ (runErr = "" => DistinctDestinations)) =>
        \A as \in Perms(Apps), ko \in KeyOrders :
            Outcome(RunInOrder(as, ko, World0)) = ActualOutcome

\* C10 (amended): at the end of a run in which no step failed and whose
\* destinations are distinct, every iteration order in which no step fails
\* leaves the same files, written paths and hooks as this run did.
OutcomeSameInEveryCleanOrder ==
    (pc = "done" /\ runErr = "" /\ DistinctDestinations) =>
        \A as \in Perms(Apps), ko \in KeyOrders :
            RunInOrder(as, ko, World0).err = ""
                => Outcome(RunInOrder(as, ko, World0)) = ActualOutcome

\* C10 witness: both applications were rendered without an error, three
\* distinct files written and the hook of each run.
BothRenderedToDistinctFiles ==
    /\ pc = "done" /\ runErr = ""
    /\ DistinctDestinations
    /\ Cardinality({w.path : w \in writes}) = 3
    /\ hookCalls["vim"] = 1 /\ hookCalls["shell"] = 1

====
